---- MODULE Spec2Model ----
(***************************************************************************)
(* The four single-block kernels of the repository as one state machine:   *)
(*   "test"            2D tile copy-in / +1 / copy-out  (5_tma_2d.cu:34)   *)
(*   "add_one_kernel"  1D tile copy-in / +1 / copy-out  (5_tma_2d.cu:341)  *)
(*   "kernel_dense"    dense wgmma m64n16k16            (part_000:33)      *)
(*   "kernel_sparse"   sparse wgmma m64n8k32, two issues (5_tma_2d.cu:151) *)
(* A state holds every thread's program position, the arrival barrier, the *)
(* copy engine's transfers in both directions, the tensor pipeline's       *)
(* batches, the scratch buffer and global memory.  Threads, the copy       *)
(* engine and the tensor pipeline interleave freely.                       *)
(***************************************************************************)
EXTENDS Integers, Sequences, FiniteSets, TLC

VARIABLES
  kern,     \* which kernel this launch runs
  coord,    \* the kernel's coordinate arguments [x, y]
  pc,       \* pc[t]: index into Prog(kern) of thread t's next instruction
  li,       \* li[t]: the loop variable i of the update loop (-1: not entered)
  bar,      \* the __shared__ barrier
  token,    \* token[t]: the arrival token of thread t (-1: none)
  cin,      \* cin[b]: inbound copy into buffer b: -1 not issued, else chunks done
  smem,     \* the scratch buffer of the copy-only kernels
  gmem,     \* the global tensor of the copy-only kernels
  orig,     \* the host's copy of the tensor as filled before the launch
  out,      \* the outbound copy (shared to global)
  eng,      \* every copy-engine / barrier-tx operation issued so far, with its issuer
  regs,     \* regs[t]: desc_a, desc_b, metadata registers of thread t
  acc,      \* acc[t]: the accumulator registers c[] of thread t
  open,     \* open[t]: mma instructions issued and not yet committed
  batches,  \* batches[t]: committed batches the tensor pipeline has not finished
  hist,     \* hist[t]: the compute-stage events of thread t, in program order
  C_out,    \* the 32-bit words of the output buffer C written so far
  host,     \* the host's copy of the device result after cudaMemcpy
  s_tid,    \* Result Scatter sweep: the next thread id to scatter
  s_hit,    \* Result Scatter sweep: the 32-bit words of C stored so far
  s_dup,    \* Result Scatter sweep: words stored more than once
  s_oob,    \* Result Scatter sweep: offsets stored outside C
  m_tid,    \* metadata sweep: the next thread id to read its metadata
  m_hit     \* metadata sweep: the entries of metadata_array read so far

vars == <<kern, coord, pc, li, bar, token, cin, smem, gmem, orig, out, eng,
          regs, acc, open, batches, hist, C_out, host, s_tid, s_hit, s_dup, s_oob,
          m_tid, m_hit>>

(***************************************************************************)
(* Bounds.  The launch is <<<1, 128>>> and the tiles hold 16 or 128        *)
(* elements; the model keeps the code's formulas and scales the sizes.     *)
(***************************************************************************)
\* blockDim.x of the copy-only and compute launches (128 in the source)
BlockDim == 3
\* the copy engine moves a tile, and credits its bytes, in this many pieces
CopyChunks == 2
\* tiles per dimension of the global tensor (8 in 1D, 4 x 4 in 2D)
NumTiles == 2
\* tile_size of the 1D example (16 in the source)
tile_size == 2
\* subtile rows m and columns k of the 2D example (16 and 8 in the source)
m_2d == 2
k_2d == 2

array_size == NumTiles * tile_size
M_2d == NumTiles * m_2d
K_2d == NumTiles * k_2d
gmem_len == M_2d * K_2d
buf_len == k_2d * m_2d

(***************************************************************************)
(* Program constants of the compute kernels, as in the source.             *)
(***************************************************************************)
M_dense == 64
N_dense == 16
K_dense == 16
M_sparse == 64
N_sparse == 8
K_sparse == 64
K_A == 32
WarpSize == 32
threads_per_block == WarpSize * 4
SizeofInt == 4
SizeofHalf == 2

Threads == 0 .. (BlockDim - 1)
CopyOnly == {"test", "add_one_kernel"}
Compute == {"kernel_dense", "kernel_sparse"}
Kernels == CopyOnly \cup Compute

(***************************************************************************)
(* Thread coordinates (part_000:38-42, 5_tma_2d.cu:157-162).               *)
(***************************************************************************)
warp_id(tid) == tid \div WarpSize
lane_id(tid) == tid % WarpSize
\* lane_id >> 2
group_id(tid) == lane_id(tid) \div 4
\* lane_id & 3
lane_in_group(tid) == lane_id(tid) % 4
lane_in_work_group(tid) == lane_in_group(tid) % 2

(***************************************************************************)
(* Scratch buffers and their sizes.                                        *)
(***************************************************************************)
Bufs(kn) ==
  CASE kn = "test" -> {"smem_buffer"}
    [] kn = "add_one_kernel" -> {"tile_shared"}
    [] OTHER -> {"A_shared", "B_shared"}

\* number of elements of a scratch buffer
BufElems(kn, b) ==
  CASE kn = "test" -> buf_len
    [] kn = "add_one_kernel" -> tile_size
    [] kn = "kernel_dense" /\ b = "A_shared" -> M_dense * K_dense
    [] kn = "kernel_dense" /\ b = "B_shared" -> K_dense * N_dense
    [] kn = "kernel_sparse" /\ b = "A_shared" -> M_sparse * K_A
    [] OTHER -> K_sparse * N_sparse

\* sizeof(buffer)
Sizeof(kn, b) ==
  IF kn \in CopyOnly THEN BufElems(kn, b) * SizeofInt
                     ELSE BufElems(kn, b) * SizeofHalf

\* the byte count thread 0 passes to barrier_arrive_tx
ArriveTxBytesNone(kn) == 0
ArriveTxBytesOneBuffer(kn) ==
  CASE kn = "test" -> BufElems(kn, "smem_buffer")
    [] kn = "add_one_kernel" -> BufElems(kn, "tile_shared")
    [] OTHER -> Sizeof(kn, "A_shared")
ArriveTxBytes(kn) ==
  CASE kn = "test" -> Sizeof(kn, "smem_buffer")
    [] kn = "add_one_kernel" -> Sizeof(kn, "tile_shared")
    [] OTHER -> Sizeof(kn, "A_shared") + Sizeof(kn, "B_shared")

\* the participant count thread 0 passes to init
InitCountShort == BlockDim - 1
InitCountLong == BlockDim + 1
InitCount == BlockDim

\* the first ChunkEnd(p, n) of n units have moved once p pieces are done
ChunkEnd(p, n) == (n * p) \div CopyChunks

(***************************************************************************)
(* The kernels as instruction sequences.  who: "L" the thread with         *)
(* threadIdx.x == 0, "O" every other thread, "A" all threads.              *)
(***************************************************************************)
I(op, who, arg) == [op |-> op, who |-> who, arg |-> arg]

\* the matrix descriptor is a value built from the base pointer (buffer and
\* element offset into it) and the template arguments of the builder
make_desc(buf, off, targs) ==
  [buf |-> buf, addr |-> off * SizeofHalf, targs |-> targs]

NoDesc == [buf |-> "", addr |-> 0, targs |-> <<>>]

ProgTest ==
  << I("init", "L", 0),                    \* 40
     I("sync", "A", 0),                    \* 42
     I("prefetch", "L", 0),                \* 48
     I("copy_in", "L", "smem_buffer"),     \* 50
     I("arrive_tx", "L", 0),               \* 52
     I("arrive", "O", 0),                  \* 54
     I("wait", "A", 0),                    \* 57
     I("sync", "A", 0),                    \* 59
     I("update", "A", 0),                  \* 62-64
     I("fence_proxy", "A", 0),             \* 66
     I("sync", "A", 0),                    \* 67
     I("copy_out", "L", "smem_buffer"),    \* 71
     I("commit_group", "L", 0),            \* 73
     I("wait_group_read", "L", 0),         \* 74
     I("threadfence", "A", 0),             \* 76
     I("sync", "A", 0) >>                  \* 77

ProgAddOne ==
  << I("init", "L", 0),                    \* 353
     I("fence_proxy", "L", 0),             \* 354
     I("sync", "A", 0),                    \* 356
     I("copy_in", "L", "tile_shared"),     \* 362
     I("arrive_tx", "L", 0),               \* 364
     I("arrive", "O", 0),                  \* 369
     I("wait", "A", 0),                    \* 373
     I("update", "A", 0),                  \* 376-382
     I("fence_proxy", "A", 0),             \* 385
     I("sync", "A", 0),                    \* 386
     I("copy_out", "L", "tile_shared"),    \* 392
     I("commit_group", "L", 0),            \* 395
     I("wait_group_read", "L", 0),         \* 397
     I("threadfence", "A", 0),             \* 400
     I("sync", "A", 0) >>                  \* 401

ProgDense ==
  << I("sync", "A", 0),                    \* 44
     I("init", "L", 0),                    \* 52
     I("sync", "A", 0),                    \* 54
     I("copy_in", "L", "A_shared"),        \* 60
     I("copy_in", "L", "B_shared"),        \* 62
     I("arrive_tx", "L", 0),               \* 64
     I("arrive", "O", 0),                  \* 67
     I("wait", "A", 0),                    \* 70
     I("sync", "A", 0),                    \* 72
     I("make_desc", "A", [a |-> make_desc("A_shared", 0, <<3>>),       \* 75
                          b |-> make_desc("B_shared", 0, <<3>>)]),     \* 76
     I("acc_zero", "A", 4),                \* 79
     I("warpgroup_arrive", "A", 0),        \* 82
     I("mma", "A", 1),                     \* 88-96, scale-d 1
     I("commit_batch", "A", 0),            \* 99
     I("warpgroup_wait", "A", 0),          \* 102
     I("threadfence", "A", 0),             \* 105
     I("warpgroup_arrive", "A", 0),        \* 107
     I("store", "A", 0),                   \* 115
     I("store", "A", 1),                   \* 116
     I("store", "A", 2),                   \* 117
     I("store", "A", 3) >>                 \* 118

ProgSparse ==
  << I("init", "L", 0),                    \* 170
     I("sync", "A", 0),                    \* 172
     I("copy_in", "L", "A_shared"),        \* 177
     I("copy_in", "L", "B_shared"),        \* 179
     I("arrive_tx", "L", 0),               \* 181
     I("arrive", "O", 0),                  \* 183
     I("wait", "A", 0),                    \* 186
     I("sync", "A", 0),                    \* 188
     I("load_metadata", "A", 0),           \* 192-193
     I("sync", "A", 0),                    \* 195
     I("make_desc", "A", [a |-> make_desc("A_shared", 0, <<8, 32, 2>>),     \* 198
                          b |-> make_desc("B_shared", 0, <<8, 16, 0>>)]),   \* 199
     I("acc_zero", "A", 2),                \* 202
     I("warpgroup_arrive", "A", 0),        \* 204
     I("mma", "A", 1),                     \* 206-220, scale D 1
     I("make_desc", "A", [a |-> make_desc("A_shared", K_A \div 2, <<8, 32, 2>>),        \* 222
                          b |-> make_desc("B_shared", 32 * N_sparse, <<8, 8, 0>>)]),     \* 223
     I("warpgroup_arrive", "A", 0),        \* 225
     I("load_metadata", "A", 1),           \* 227-228
     I("mma", "A", 1),                     \* 230-244, scale D 1
     I("commit_batch", "A", 0),            \* 247
     I("warpgroup_wait", "A", 0),          \* 250
     I("threadfence", "A", 0),             \* 253
     I("warpgroup_arrive", "A", 0),        \* 255
     I("store", "A", 0),                   \* 263
     I("store", "A", 1) >>                 \* 264

Prog(kn) ==
  CASE kn = "test" -> ProgTest
    [] kn = "add_one_kernel" -> ProgAddOne
    [] kn = "kernel_dense" -> ProgDense
    [] OTHER -> ProgSparse

\* the position after the last instruction: the thread has left the kernel
Exit(kn) == Len(Prog(kn)) + 1

\* whether instruction ins is on thread tid's path (the if (threadIdx.x == 0) branches)
AppliesFirstTwo(ins, tid) ==
  \/ ins.who = "A"
  \/ ins.who = "L" /\ tid <= 1
  \/ ins.who = "O" /\ tid # 0
Applies(ins, tid) ==
  \/ ins.who = "A"
  \/ ins.who = "L" /\ tid = 0
  \/ ins.who = "O" /\ tid # 0

\* the smallest of a non-empty set of positions
PosMin(S) == CHOOSE q \in S : \A r \in S : q <= r
PosMax(S) == CHOOSE q \in S : \A r \in S : q >= r

\* the next instruction of thread tid after position p, for every kernel,
\* thread and position
NextPcTab ==
  [kn \in Kernels |-> [tid \in Threads |-> [p \in 0 .. Len(Prog(kn)) |->
     LET later == {q \in (p + 1) .. Len(Prog(kn)) : Applies(Prog(kn)[q], tid)}
     IN  IF later = {} THEN Exit(kn) ELSE PosMin(later)]]]
NextPc(kn, tid, p) == NextPcTab[kn][tid][p]

\* positions of instruction op in the kernel's program (0: the kernel has none)
OpNames == UNION {{Prog(kn)[q].op : q \in 1 .. Len(Prog(kn))} : kn \in Kernels}
PosSet(kn, op) == {q \in 1 .. Len(Prog(kn)) : Prog(kn)[q].op = op}
FirstPosTab ==
  [kn \in Kernels |-> [op \in OpNames |->
     IF PosSet(kn, op) = {} THEN 0 ELSE PosMin(PosSet(kn, op))]]
LastPosTab ==
  [kn \in Kernels |-> [op \in OpNames |->
     IF PosSet(kn, op) = {} THEN 0 ELSE PosMax(PosSet(kn, op))]]
FirstPos(kn, op) == FirstPosTab[kn][op]
LastPos(kn, op) == LastPosTab[kn][op]
\* the first position of op after position p (0: there is none)
NextPosTab ==
  [kn \in Kernels |-> [op \in OpNames |-> [p \in 0 .. Len(Prog(kn)) |->
     LET S == {q \in PosSet(kn, op) : q > p}
     IN  IF S = {} THEN 0 ELSE PosMin(S)]]]
NextPos(kn, op, p) == NextPosTab[kn][op][p]

(***************************************************************************)
(* The global tensor and the tile the copy engine addresses.               *)
(***************************************************************************)
\* fill_tilewise(host_tensor, M, K, m, k): every element holds its tile's number
fill_tilewise(i) ==
  ((i \div K_2d) \div m_2d) * (K_2d \div k_2d) + ((i % K_2d) \div k_2d)

\* the host buffer copied to the device before the launch
HostFill(kn) ==
  CASE kn = "test" -> [i \in 0 .. (gmem_len - 1) |-> fill_tilewise(i)]
    [] kn = "add_one_kernel" -> [i \in 0 .. (array_size - 1) |-> i]
    [] OTHER -> <<>>

\* the tile-aligned coordinates a launch may select
Coords(kn) ==
  CASE kn = "test" ->
         {[x |-> tx * k_2d, y |-> ty * m_2d] : tx \in 0 .. (NumTiles - 1), ty \in 0 .. (NumTiles - 1)}
    [] kn = "add_one_kernel" ->
         {[x |-> tx * tile_size, y |-> 0] : tx \in 0 .. (NumTiles - 1)}
    [] OTHER -> {[x |-> 0, y |-> 0]}

\* the global index of element e of the box at coordinate c: the 2D box is
\* m rows by k columns, x selects the column and y the row
GIndex(kn, c, e) ==
  IF kn = "test" THEN (c.y + (e \div k_2d)) * K_2d + (c.x + (e % k_2d))
                 ELSE c.x + e

\* the global indices the box at coordinate c covers
Box(kn, c) == {GIndex(kn, c, e) : e \in 0 .. (BufElems(kn, "") - 1)}

(***************************************************************************)
(* The arrival barrier: pending arrivals and pending transaction bytes of  *)
(* the current phase.  A phase completes when both are zero.  The fields   *)
(* inits, arrived, declared and credited only count what has happened.     *)
(***************************************************************************)
PhaseDone(b) == b.pending = 0 /\ b.tx = 0

Settle(b) ==
  IF PhaseDone(b) THEN [b EXCEPT !.phase = @ + 1, !.pending = b.expected]
                  ELSE b

InboundDone == \A b \in DOMAIN cin : cin[b] = CopyChunks

(***************************************************************************)
(* Thread steps.                                                           *)
(***************************************************************************)
Ins(t) == Prog(kern)[pc[t]]
At(t, op) == pc[t] < Exit(kern) /\ Ins(t).op = op
Advance(t) == pc' = [pc EXCEPT ![t] = NextPc(kern, t, pc[t])]
Issued(t, op) == eng' = eng \cup {[op |-> op, tid |-> t, pos |-> pc[t]]}
Event(t, e) == hist' = [hist EXCEPT ![t] = Append(@, e)]

scat == <<s_tid, s_hit, s_dup, s_oob, m_tid, m_hit>>
launch == <<kern, coord, orig, host>>
copyv == <<cin, smem, gmem, out>>
mmav == <<regs, acc, open, batches, C_out>>

\* init(&bar, blockDim.x)
BarInit(t) ==
  /\ At(t, "init")
  /\ bar' = [bar EXCEPT !.inits = @ + 1, !.expected = InitCount,
                        !.pending = InitCount, !.tx = 0, !.phase = 0]
  /\ Issued(t, "init")
  /\ Advance(t)
  /\ UNCHANGED <<launch, li, token, copyv, mmav, hist, scat>>

\* __syncthreads() at position p lets a thread through once every thread of
\* the block has reached it
SyncReadyAlways(p) == TRUE
SyncReady(p) == \A u \in Threads : pc[u] >= p

SyncThreads(t) ==
  /\ At(t, "sync")
  /\ SyncReady(pc[t])
  /\ Advance(t)
  /\ UNCHANGED <<launch, li, bar, token, copyv, eng, mmav, hist, scat>>

\* copy_async_2d_prefetch(&tensor_map, x, y)
Prefetch(t) ==
  /\ At(t, "prefetch")
  /\ Issued(t, "prefetch")
  /\ Advance(t)
  /\ UNCHANGED <<launch, li, bar, token, copyv, mmav, hist, scat>>

\* cde::cp_async_bulk_tensor_{1d,2d}_global_to_shared(buf, &tensor_map, ..., bar)
CopyIn(t) ==
  /\ At(t, "copy_in")
  /\ cin' = [cin EXCEPT ![Ins(t).arg] = 0]
  /\ Issued(t, "copy_in")
  /\ Advance(t)
  /\ UNCHANGED <<launch, li, bar, token, smem, gmem, out, mmav, hist, scat>>

\* token = cuda::device::barrier_arrive_tx(bar, 1, bytes)
ArriveTx(t) ==
  /\ At(t, "arrive_tx")
  /\ token' = [token EXCEPT ![t] = bar.phase]
  /\ bar' = Settle([bar EXCEPT !.tx = @ + ArriveTxBytes(kern),
                               !.declared = @ + ArriveTxBytes(kern),
                               !.pending = @ - 1,
                               !.arrived = @ + 1])
  /\ Issued(t, "arrive_tx")
  /\ Advance(t)
  /\ UNCHANGED <<launch, li, copyv, mmav, hist, scat>>

\* token = bar.arrive()
Arrive(t) ==
  /\ At(t, "arrive")
  /\ token' = [token EXCEPT ![t] = bar.phase]
  /\ bar' = Settle([bar EXCEPT !.pending = @ - 1, !.arrived = @ + 1])
  /\ Advance(t)
  /\ UNCHANGED <<launch, li, copyv, eng, mmav, hist, scat>>

\* bar.wait(token) returns once the phase the token is bound to has completed
WaitReady(t) == bar.phase # token[t]

Wait(t) ==
  /\ At(t, "wait")
  /\ WaitReady(t)
  /\ Advance(t)
  /\ UNCHANGED <<launch, li, bar, token, copyv, eng, mmav, hist, scat>>

\* the update loop: for (i = threadIdx.x; i < bound; i += blockDim.x)
LoopBound(kn) == IF kn = "test" THEN buf_len ELSE array_size
\* add_one_kernel guards the body with if (i < tile_size)
BodyRuns(kn, i) == kn = "test" \/ i < tile_size
CurI(t) == IF li[t] < 0 THEN t ELSE li[t]
\* smem[i] += 1
UpdateValTwice(v) == v + 2
UpdateVal(v) == v + 1
\* the thread's next loop iteration accesses the scratch buffer
WillAccess(t) ==
  /\ At(t, "update")
  /\ CurI(t) < LoopBound(kern)
  /\ BodyRuns(kern, CurI(t))

Update(t) ==
  /\ At(t, "update")
  /\ IF CurI(t) < LoopBound(kern)
       THEN /\ smem' = IF BodyRuns(kern, CurI(t))
                         THEN [smem EXCEPT ![CurI(t)] = UpdateVal(@)]
                         ELSE smem
            /\ li' = [li EXCEPT ![t] = CurI(t) + BlockDim]
            /\ pc' = pc
       ELSE /\ smem' = smem
            /\ li' = [li EXCEPT ![t] = CurI(t)]
            /\ Advance(t)
  /\ UNCHANGED <<launch, bar, token, cin, gmem, out, eng, mmav, hist, scat>>

\* cde::fence_proxy_async_shared_cta()
FenceProxy(t) ==
  /\ At(t, "fence_proxy")
  /\ Advance(t)
  /\ UNCHANGED <<launch, li, bar, token, copyv, eng, mmav, hist, scat>>

\* cde::cp_async_bulk_tensor_{1d,2d}_shared_to_global(&tensor_map, ..., buf)
CopyOut(t) ==
  /\ At(t, "copy_out")
  /\ out' = [st |-> "reading", p |-> 0, buf |-> [e \in {} |-> 0], committed |-> FALSE]
  /\ Issued(t, "copy_out")
  /\ Advance(t)
  /\ UNCHANGED <<launch, li, bar, token, cin, smem, gmem, mmav, hist, scat>>

\* cde::cp_async_bulk_commit_group()
CommitGroup(t) ==
  /\ At(t, "commit_group")
  /\ out' = [out EXCEPT !.committed = (out.st # "idle")]
  /\ Issued(t, "commit_group")
  /\ Advance(t)
  /\ UNCHANGED <<launch, li, bar, token, cin, smem, gmem, mmav, hist, scat>>

\* cde::cp_async_bulk_wait_group_read<0>() returns once no committed group
\* is still reading shared memory
WaitGroupReadNoWait == TRUE
WaitGroupReadReady == ~(out.committed /\ out.st = "reading")

WaitGroupRead(t) ==
  /\ At(t, "wait_group_read")
  /\ WaitGroupReadReady
  /\ Issued(t, "wait_group_read")
  /\ Advance(t)
  /\ UNCHANGED <<launch, li, bar, token, copyv, mmav, hist, scat>>

\* __threadfence()
ThreadFence(t) ==
  /\ At(t, "threadfence")
  /\ Event(t, [ev |-> "fence"])
  /\ Advance(t)
  /\ UNCHANGED <<launch, li, bar, token, copyv, eng, mmav, scat>>

(***************************************************************************)
(* The copy engine.                                                        *)
(***************************************************************************)
\* the inbound copy into buffer b moves its next piece into shared memory and
\* credits the piece's bytes to the barrier (complete_tx)
CopyInChunk(b) ==
  /\ b \in DOMAIN cin
  /\ cin[b] >= 0
  /\ cin[b] < CopyChunks
  /\ LET p == cin[b]
         n == BufElems(kern, b)
         bytes == ChunkEnd(p + 1, Sizeof(kern, b)) - ChunkEnd(p, Sizeof(kern, b))
     IN  /\ cin' = [cin EXCEPT ![b] = p + 1]
         /\ smem' = IF kern \in CopyOnly
                      THEN [e \in DOMAIN smem |->
                              IF e >= ChunkEnd(p, n) /\ e < ChunkEnd(p + 1, n)
                                THEN gmem[GIndex(kern, coord, e)]
                                ELSE smem[e]]
                      ELSE smem
         /\ bar' = Settle([bar EXCEPT !.tx = @ - bytes, !.credited = @ + bytes])
  /\ UNCHANGED <<launch, pc, li, token, gmem, out, eng, mmav, hist, scat>>

\* the outbound copy reads its next piece of the scratch buffer
CopyOutRead ==
  /\ out.st = "reading"
  /\ LET n == Cardinality(DOMAIN smem)
         q == out.p + 1
     IN  out' = [out EXCEPT
                   !.p = q,
                   !.buf = [e \in 0 .. (ChunkEnd(q, n) - 1) |->
                              IF e < ChunkEnd(out.p, n) THEN out.buf[e] ELSE smem[e]],
                   !.st = IF q = CopyChunks THEN "read" ELSE "reading"]
  /\ UNCHANGED <<launch, pc, li, bar, token, cin, smem, gmem, eng, mmav, hist, scat>>

\* the outbound copy writes the box it read to global memory
CopyOutWrite ==
  /\ out.st = "read"
  /\ gmem' = [i \in DOMAIN gmem |->
                IF \E e \in DOMAIN out.buf : GIndex(kern, coord, e) = i
                  THEN out.buf[CHOOSE e \in DOMAIN out.buf : GIndex(kern, coord, e) = i]
                  ELSE gmem[i]]
  /\ out' = [out EXCEPT !.st = "written"]
  /\ UNCHANGED <<launch, pc, li, bar, token, cin, smem, eng, mmav, hist, scat>>

(***************************************************************************)
(* The compute stage.                                                      *)
(***************************************************************************)
\* metadata_offset for K-sub-block sub (5_tma_2d.cu:192, 227)
metadata_offset_stale(tid, sub) ==
  warp_id(tid) * 8 * 4 + lane_in_work_group(tid) * 8 + group_id(tid)
metadata_offset(tid, sub) ==
  warp_id(tid) * 8 * 4 + sub * (8 * 2) + lane_in_work_group(tid) * 8 + group_id(tid)

\* metadata = metadata_array[metadata_offset]
LoadMetadata(t) ==
  /\ At(t, "load_metadata")
  /\ regs' = [regs EXCEPT ![t].metadata =
                <<"metadata_array", metadata_offset(t, Ins(t).arg)>>]
  /\ Advance(t)
  /\ UNCHANGED <<launch, li, bar, token, copyv, eng, acc, open, batches, C_out, hist, scat>>

\* desc_a = make_desc...(A_shared + off); desc_b = make_desc...(B_shared + off):
\* the two builds only write the thread's own registers and are one step
MakeDesc(t) ==
  /\ At(t, "make_desc")
  /\ regs' = [regs EXCEPT ![t].desc_a = Ins(t).arg.a, ![t].desc_b = Ins(t).arg.b]
  /\ Advance(t)
  /\ UNCHANGED <<launch, li, bar, token, copyv, eng, acc, open, batches, C_out, hist, scat>>

\* uint32_t c[n] = {}
AccZero(t) ==
  /\ At(t, "acc_zero")
  /\ acc' = [acc EXCEPT ![t] = [s \in 0 .. (Ins(t).arg - 1) |-> {}]]
  /\ Event(t, [ev |-> "acc_zero"])
  /\ Advance(t)
  /\ UNCHANGED <<launch, li, bar, token, copyv, eng, regs, open, batches, C_out, scat>>

\* warpgroup_arrive()
WarpgroupArrive(t) ==
  /\ At(t, "warpgroup_arrive")
  /\ Event(t, [ev |-> "arrive"])
  /\ Advance(t)
  /\ UNCHANGED <<launch, li, bar, token, copyv, eng, mmav, scat>>

\* wgmma.mma_async: the instruction joins the thread's open group
Mma(t) ==
  /\ At(t, "mma")
  /\ LET ins == [a |-> regs[t].desc_a, b |-> regs[t].desc_b,
                 meta |-> regs[t].metadata, scale_d |-> Ins(t).arg]
     IN  /\ open' = [open EXCEPT ![t] = Append(@, ins)]
         /\ Event(t, [ev |-> "mma", ins |-> ins, ready |-> InboundDone,
                      synced |-> \A u \in Threads : pc[u] >= NextPos(kern, "sync", FirstPos(kern, "wait"))])
  /\ Advance(t)
  /\ UNCHANGED <<launch, li, bar, token, copyv, eng, regs, acc, batches, C_out, scat>>

\* warpgroup_commit_batch(): the open group becomes one batch
CommitBatch(t) ==
  /\ At(t, "commit_batch")
  /\ batches' = [batches EXCEPT ![t] = Append(@, open[t])]
  /\ open' = [open EXCEPT ![t] = <<>>]
  /\ Event(t, [ev |-> "commit", n |-> Len(open[t])])
  /\ Advance(t)
  /\ UNCHANGED <<launch, li, bar, token, copyv, eng, regs, acc, C_out, scat>>

\* the product one mma adds to every accumulator register of the thread:
\* the operand tiles its descriptors address, and whether the copy
\* engine had fully written them when the pipeline read them
Product(ins) == [a |-> ins.a, b |-> ins.b, meta |-> ins.meta, full |-> InboundDone]

\* D = A*B + D when scale-d is 1, D = A*B when it is 0
Accumulate(v, ins) == IF ins.scale_d = 1 THEN v \cup {Product(ins)} ELSE {Product(ins)}

\* the registers after the instructions of batch bt, in issue order
RunBatch(v, bt) ==
  LET F[n \in 0 .. Len(bt)] == IF n = 0 THEN v ELSE Accumulate(F[n - 1], bt[n])
  IN  F[Len(bt)]

\* the tensor pipeline finishes the oldest batch of thread t
TensorComplete(t) ==
  /\ batches[t] # <<>>
  /\ acc' = [acc EXCEPT ![t] = [s \in DOMAIN acc[t] |-> RunBatch(acc[t][s], Head(batches[t]))]]
  /\ batches' = [batches EXCEPT ![t] = Tail(@)]
  /\ UNCHANGED <<launch, pc, li, bar, token, copyv, eng, regs, open, C_out, hist, scat>>

\* warpgroup_wait<0>() returns once no committed batch of the thread is unfinished
WarpgroupWaitNoWait(t) == TRUE
WarpgroupWaitReady(t) == batches[t] = <<>>

WarpgroupWait(t) ==
  /\ At(t, "warpgroup_wait")
  /\ WarpgroupWaitReady(t)
  /\ Event(t, [ev |-> "wait", outstanding |-> Len(batches[t])])
  /\ Advance(t)
  /\ UNCHANGED <<launch, li, bar, token, copyv, eng, mmav, scat>>

(***************************************************************************)
(* Result Scatter (part_000:109-118, 5_tma_2d.cu:258-264).                 *)
(***************************************************************************)
\* 32-bit words per row of C
RowWords(kn) == IF kn = "kernel_dense" THEN N_dense \div 2 ELSE N_sparse \div 2
\* 32-bit words of C
CWords(kn) ==
  IF kn = "kernel_dense" THEN (M_dense * N_dense) \div 2 ELSE (M_sparse * N_sparse) \div 2
\* accumulator registers per thread
Slots(kn) == IF kn = "kernel_dense" THEN 0 .. 3 ELSE 0 .. 1

offset1Narrow(kn, tid) ==
  IF kn = "kernel_dense"
    THEN warp_id(tid) * 16 * 8 + group_id(tid) * 4 + lane_in_group(tid)
    ELSE warp_id(tid) * 16 * 4 + group_id(tid) * 2 + lane_in_group(tid)
offset1(kn, tid) ==
  IF kn = "kernel_dense"
    THEN warp_id(tid) * 16 * 8 + group_id(tid) * 8 + lane_in_group(tid)
    ELSE warp_id(tid) * 16 * 4 + group_id(tid) * 4 + lane_in_group(tid)
offset2(kn, tid) ==
  IF kn = "kernel_dense"
    THEN warp_id(tid) * 16 * 8 + (group_id(tid) + 8) * 8 + lane_in_group(tid)
    ELSE warp_id(tid) * 16 * 4 + (group_id(tid) + 8) * 4 + lane_in_group(tid)

\* the word of C that register c[slot] of thread tid is stored to
StoreOffset(kn, tid, slot) ==
  CASE slot = 0 -> offset1(kn, tid)
    [] slot = 1 -> offset2(kn, tid)
    [] slot = 2 -> offset1(kn, tid) + 4
    [] OTHER -> offset2(kn, tid) + 4

\* C_ptr[offset] = c[slot]
Store(t) ==
  /\ At(t, "store")
  /\ LET off == StoreOffset(kern, t, Ins(t).arg)
     IN  C_out' = {w \in C_out : w.off # off}
                    \cup {[off |-> off, val |-> acc[t][Ins(t).arg], tid |-> t]}
  /\ Event(t, [ev |-> "read", slot |-> Ins(t).arg,
               drained |-> (open[t] = <<>> /\ batches[t] = <<>>)])
  /\ Advance(t)
  /\ UNCHANGED <<launch, li, bar, token, copyv, eng, regs, acc, open, batches, scat>>

(***************************************************************************)
(* The host after the launch (main): cudaMemcpy device to host waits for   *)
(* the kernel and everything it issued.                                    *)
(***************************************************************************)
DeviceIdle ==
  /\ \A t \in Threads : pc[t] = Exit(kern)
  /\ out.st \in {"idle", "written"}
  /\ \A b \in DOMAIN cin : cin[b] \in {-1, CopyChunks}
  /\ \A t \in Threads : batches[t] = <<>>

HostMemcpy ==
  /\ DeviceIdle
  /\ ~host.done
  /\ host' = [done |-> TRUE, data |-> IF kern \in CopyOnly THEN gmem ELSE C_out]
  /\ UNCHANGED <<kern, coord, orig, pc, li, bar, token, copyv, eng, mmav, hist, scat>>

(***************************************************************************)
(* The sweep of Result Scatter over the launch's 128 threads, one thread   *)
(* at a time: every register slot of thread s_tid is stored.               *)
(***************************************************************************)
ScatterThread ==
  /\ kern \in Compute
  /\ s_tid < threads_per_block
  /\ LET offs == {StoreOffset(kern, s_tid, sl) : sl \in Slots(kern)}
         inside == {o \in offs : o >= 0 /\ o < CWords(kern)}
     IN  /\ s_hit' = s_hit \cup inside
         /\ s_dup' = s_dup \cup (s_hit \cap inside)
                       \cup (IF Cardinality(offs) < Cardinality(Slots(kern)) THEN offs ELSE {})
         /\ s_oob' = s_oob \cup (offs \ inside)
  /\ s_tid' = s_tid + 1
  /\ UNCHANGED <<launch, pc, li, bar, token, copyv, eng, mmav, hist, m_tid, m_hit>>

(***************************************************************************)
(* The sweep of the sparse kernel's metadata reads over the launch's 128   *)
(* threads, one thread at a time: thread m_tid reads its entry for         *)
(* K-sub-block 0 and for K-sub-block 1.                                    *)
(***************************************************************************)
\* entries of metadata_array
metadata_size == (M_sparse \div 16) * (K_sparse \div 16) * 8

MetadataThread ==
  /\ kern = "kernel_sparse"
  /\ m_tid < threads_per_block
  /\ m_hit' = m_hit \cup {metadata_offset(m_tid, sub) : sub \in {0, 1}}
  /\ m_tid' = m_tid + 1
  /\ UNCHANGED <<launch, pc, li, bar, token, copyv, eng, mmav, hist,
                 s_tid, s_hit, s_dup, s_oob>>

(***************************************************************************)
(* Specifications.                                                         *)
(***************************************************************************)
Init ==
  /\ kern \in Kernels
  /\ coord \in Coords(kern)
  /\ pc = [t \in Threads |-> NextPc(kern, t, 0)]
  /\ li = [t \in Threads |-> -1]
  /\ bar = [inits |-> 0, expected |-> 0, pending |-> 0, tx |-> 0, phase |-> 0,
            arrived |-> 0, declared |-> 0, credited |-> 0]
  /\ token = [t \in Threads |-> -1]
  /\ cin = [b \in Bufs(kern) |-> -1]
  /\ smem = IF kern \in CopyOnly
              THEN [e \in 0 .. (BufElems(kern, "") - 1) |-> -1]
              ELSE <<>>
  /\ gmem = HostFill(kern)
  /\ orig = HostFill(kern)
  /\ out = [st |-> "idle", p |-> 0, buf |-> [e \in {} |-> 0], committed |-> FALSE]
  /\ eng = {}
  /\ regs = [t \in Threads |-> [desc_a |-> NoDesc, desc_b |-> NoDesc, metadata |-> <<>>]]
  /\ acc = [t \in Threads |-> <<>>]
  /\ open = [t \in Threads |-> <<>>]
  /\ batches = [t \in Threads |-> <<>>]
  /\ hist = [t \in Threads |-> <<>>]
  /\ C_out = {}
  /\ host = [done |-> FALSE, data |-> <<>>]
  /\ s_tid = 0
  /\ s_hit = {}
  /\ s_dup = {}
  /\ s_oob = {}
  /\ m_tid = 0
  /\ m_hit = {}

Next ==
  \/ \E t \in Threads : BarInit(t)
  \/ \E t \in Threads : SyncThreads(t)
  \/ \E t \in Threads : Prefetch(t)
  \/ \E t \in Threads : CopyIn(t)
  \/ \E t \in Threads : ArriveTx(t)
  \/ \E t \in Threads : Arrive(t)
  \/ \E t \in Threads : Wait(t)
  \/ \E t \in Threads : Update(t)
  \/ \E t \in Threads : FenceProxy(t)
  \/ \E t \in Threads : CopyOut(t)
  \/ \E t \in Threads : CommitGroup(t)
  \/ \E t \in Threads : WaitGroupRead(t)
  \/ \E t \in Threads : ThreadFence(t)
  \/ \E t \in Threads : LoadMetadata(t)
  \/ \E t \in Threads : MakeDesc(t)
  \/ \E t \in Threads : AccZero(t)
  \/ \E t \in Threads : WarpgroupArrive(t)
  \/ \E t \in Threads : Mma(t)
  \/ \E t \in Threads : CommitBatch(t)
  \/ \E t \in Threads : WarpgroupWait(t)
  \/ \E t \in Threads : Store(t)
  \/ \E t \in Threads : TensorComplete(t)
  \/ \E b \in {"smem_buffer", "tile_shared", "A_shared", "B_shared"} : CopyInChunk(b)
  \/ CopyOutRead
  \/ CopyOutWrite
  \/ HostMemcpy

Spec == Init /\ [][Next]_vars

NextScatter == ScatterThread

SpecScatter == Init /\ [][NextScatter]_vars

NextMetadata == MetadataThread

SpecMetadata == Init /\ [][NextMetadata]_vars

(***************************************************************************)
(* Properties.                                                             *)
(***************************************************************************)
WaitPos == FirstPos(kern, "wait")
\* the __syncthreads that follows bar.wait (compute kernels and test)
SyncAfterWait == NextPos(kern, "sync", WaitPos)
\* the fence_proxy_async every thread executes after its writes
FencePos == LastPos(kern, "fence_proxy")
\* sizeof of all scratch buffers of the kernel
RECURSIVE SumSizeof(_, _)
SumSizeof(kn, S) ==
  IF S = {} THEN 0
  ELSE LET b == CHOOSE x \in S : TRUE IN Sizeof(kn, b) + SumSizeof(kn, S \ {b})
\* positions in hist[t] of the events of kind ev
Idx(t, ev) == {j \in 1 .. Len(hist[t]) : hist[t][j].ev = ev}

\* C1: in every kernel, a thread that has returned from bar.wait(token) finds
\* that all blockDim.x threads have arrived on the barrier and that the copy
\* engine has credited every byte of the scratch buffer(s), which is the
\* byte count thread 0 declared.
C1_WaitNotEarly ==
  \A t \in Threads :
    pc[t] > WaitPos =>
      /\ bar.arrived = BlockDim
      /\ bar.credited = SumSizeof(kern, Bufs(kern))
      /\ bar.declared = SumSizeof(kern, Bufs(kern))
      /\ InboundDone

C1_Witness ==
  /\ kern = "kernel_sparse"
  /\ \E t \in Threads : pc[t] = WaitPos + 1
  /\ \E t \in Threads : pc[t] = WaitPos

\* C2: the scratch buffer is never used in two directions at once: a thread
\* whose next step reads or writes an element of it finds the inbound copy
\* complete and no outbound copy reading it, and while the outbound copy is
\* reading, the inbound copy is complete.
C2_OneDirection ==
  /\ \A t \in Threads : WillAccess(t) => (InboundDone /\ out.st # "reading")
  /\ out.st = "reading" => InboundDone
  /\ (\E b \in DOMAIN cin : cin[b] >= 0 /\ cin[b] < CopyChunks) => out.st = "idle"

C2_Witness ==
  /\ kern = "test"
  /\ \E t \in Threads : WillAccess(t) /\ li[t] >= 0
  /\ \E t \in Threads : pc[t] = FencePos

\* C3: copy-only kernels: once the device is idle after the kernel, every
\* global element inside the selected tile holds its original value + 1 and
\* every element outside it is unchanged, and that is what the host reads
\* back; for the 1D launch at offset tile_size exactly the elements
\* [tile_size, 2 * tile_size) changed and all others keep value i.
TileResult(kn, c) ==
  [i \in DOMAIN orig |-> IF i \in Box(kn, c) THEN orig[i] + 1 ELSE orig[i]]

C3_TilePlusOne ==
  kern \in CopyOnly =>
    /\ DeviceIdle => gmem = TileResult(kern, coord)
    /\ host.done => host.data = TileResult(kern, coord)
    /\ (host.done /\ kern = "add_one_kernel" /\ coord.x = tile_size) =>
         \A i \in 0 .. (array_size - 1) :
           host.data[i] = IF i >= tile_size /\ i < 2 * tile_size THEN i + 1 ELSE i

C3_Witness ==
  /\ kern = "add_one_kernel"
  /\ coord.x = tile_size
  /\ host.done
  /\ host.data[tile_size] = tile_size + 1
  /\ host.data[0] = 0

\* C4: in the copy-only kernels, once thread 0 has issued copy_out, every
\* thread has finished all its writes to the scratch buffer and executed
\* its fence_proxy_async, and thread 0 is past the __syncthreads that
\* follows the fence.
C4_CopyOutAfterWriters ==
  (kern \in CopyOnly /\ (out.st # "idle" \/ \E e \in eng : e.op = "copy_out")) =>
    /\ \A t \in Threads : pc[t] > FencePos /\ ~WillAccess(t)
    /\ pc[0] > NextPos(kern, "sync", FencePos)
    /\ \A e \in eng : e.op = "copy_out" => e.tid = 0

C4_Witness ==
  /\ kern = "add_one_kernel"
  /\ out.st = "reading"
  /\ \E t \in Threads : pc[t] = NextPos(kern, "sync", FencePos)

\* C5: in the copy-only kernels, a thread that has reached kernel exit
\* finds that the outbound copy has finished reading the scratch buffer,
\* that thread 0 has issued copy_out, commit_group and wait_group_read in
\* this order and has returned from the wait.
C5_NoExitWhileReading ==
  \A t \in Threads :
    (kern \in CopyOnly /\ pc[t] = Exit(kern)) =>
      /\ out.st \in {"read", "written"}
      /\ out.committed
      /\ pc[0] > FirstPos(kern, "wait_group_read")
      /\ \E c \in eng, g \in eng, w \in eng :
           /\ c.op = "copy_out" /\ g.op = "commit_group" /\ w.op = "wait_group_read"
           /\ c.tid = 0 /\ g.tid = 0 /\ w.tid = 0
           /\ c.pos < g.pos /\ g.pos < w.pos

C5_Witness ==
  /\ kern = "test"
  /\ out.st = "read"
  /\ \E t \in Threads : t # 0 /\ pc[t] = Exit(kern)

\* C6: in every kernel the barrier is initialised at most once, only by
\* thread 0 and with participant count blockDim.x, and once any thread has
\* arrived, waited, or issued a copy against the barrier, it has been
\* initialised exactly once.
C6_InitOnceFirst ==
  /\ bar.inits <= 1
  /\ \A e \in eng : e.op = "init" => e.tid = 0
  /\ bar.inits = 1 => bar.expected = BlockDim
  /\ (\/ bar.arrived > 0
      \/ \E b \in DOMAIN cin : cin[b] >= 0
      \/ \E t \in Threads : token[t] # -1
      \/ \E t \in Threads : pc[t] > WaitPos) => bar.inits = 1

C6_Witness ==
  /\ kern = "kernel_dense"
  /\ bar.inits = 1
  /\ bar.arrived = BlockDim
  /\ \A t \in Threads : pc[t] > WaitPos

\* C7: in the dense and sparse kernels, once any thread has issued an mma,
\* all threads have returned from bar.wait and the __syncthreads that
\* follows it has completed (every thread has reached it, the issuing
\* thread has left it), and both operand tiles are fully written: at the
\* issue and when the tensor pipeline reads them.
C7_MmaAfterSync ==
  kern \in Compute =>
    \A t \in Threads :
      /\ Idx(t, "mma") # {} =>
           (InboundDone /\ pc[t] > SyncAfterWait /\ \A u \in Threads : pc[u] >= SyncAfterWait)
      /\ \A j \in Idx(t, "mma") : hist[t][j].ready /\ hist[t][j].synced
      /\ \A s \in DOMAIN acc[t] : \A pr \in acc[t][s] : pr.full

C7_Witness ==
  /\ kern = "kernel_dense"
  /\ \E t \in Threads : open[t] # <<>>
  /\ \E u \in Threads : pc[u] = SyncAfterWait

\* C8: in the dense and sparse kernels, every read of an accumulator
\* register for a store to C happens with no mma of the thread open or
\* unfinished, after a wait_batch(0) that returned with zero outstanding
\* batches and that came after a commit_batch closing every mma the thread
\* issued, and after the __threadfence that directly follows that wait;
\* the event after wait_batch(0) is always the fence, also at kernel exit;
\* the value stored holds the product of every mma the thread issued.
C8_ReadAfterFence ==
  kern \in Compute =>
    \A t \in Threads :
      /\ \A j \in Idx(t, "read") :
           /\ hist[t][j].drained
           /\ \E w \in Idx(t, "wait") :
                /\ hist[t][w].outstanding = 0
                /\ (w + 1) \in Idx(t, "fence")
                /\ w + 1 < j
                /\ \A i \in Idx(t, "mma") :
                     i < w /\ \E c \in Idx(t, "commit") : i < c /\ c < w
      /\ \A w \in Idx(t, "wait") :
           /\ hist[t][w].outstanding = 0
           /\ w < Len(hist[t]) => hist[t][w + 1].ev = "fence"
           /\ pc[t] = Exit(kern) => w < Len(hist[t])
      /\ \A cw \in C_out :
           cw.tid = t => Cardinality(cw.val) = Cardinality(Idx(t, "mma"))

C8_Witness ==
  /\ kern = "kernel_sparse"
  /\ \E t \in Threads : pc[t] = Exit(kern) /\ Cardinality(Idx(t, "read")) = 2
  /\ \E t \in Threads : batches[t] # <<>>

\* C9: in the sparse kernel a thread issues at most two mma instructions,
\* and exactly two once past the second: the first addresses K-sub-tile 0
\* of A_shared and B_shared with the metadata of K-sub-block 0, the second
\* K-sub-tile 1 with a rebuilt descriptor pair and the metadata of
\* K-sub-block 1; both have scale_d = 1, the accumulator is zeroed before
\* the first and not read between them, no commit_batch lies between them
\* and exactly one follows the second, closing both.
ATile(sub) == sub * (K_A \div 2) * SizeofHalf
BTile(sub) == sub * 32 * N_sparse * SizeofHalf

C9_TwoSparseMma ==
  kern = "kernel_sparse" =>
    \A t \in Threads :
      LET ms == Idx(t, "mma")
          mm(n) == CHOOSE j \in ms : Cardinality({i \in ms : i < j}) = n
          sub(n) == hist[t][mm(n)].ins
      IN  /\ Cardinality(ms) <= 2
          /\ pc[t] > LastPos(kern, "mma") => Cardinality(ms) = 2
          /\ \A j \in ms : hist[t][j].ins.scale_d = 1
          /\ \A j \in ms : \E z \in Idx(t, "acc_zero") : z < j
          /\ Cardinality(Idx(t, "acc_zero")) <= 1
          /\ Cardinality(ms) >= 1 =>
               /\ sub(0).a = [buf |-> "A_shared", addr |-> ATile(0), targs |-> <<8, 32, 2>>]
               /\ sub(0).b.buf = "B_shared" /\ sub(0).b.addr = BTile(0)
               /\ sub(0).meta = <<"metadata_array", warp_id(t) * 32 + lane_in_work_group(t) * 8 + group_id(t)>>
          /\ Cardinality(ms) = 2 =>
               /\ sub(1).a = [buf |-> "A_shared", addr |-> ATile(1), targs |-> <<8, 32, 2>>]
               /\ sub(1).b.buf = "B_shared" /\ sub(1).b.addr = BTile(1)
               /\ sub(1).meta = <<"metadata_array", warp_id(t) * 32 + 16 + lane_in_work_group(t) * 8 + group_id(t)>>
               /\ sub(1).a # sub(0).a /\ sub(1).b # sub(0).b /\ sub(1).meta # sub(0).meta
               /\ \A j \in Idx(t, "read") \cup Idx(t, "commit") \cup Idx(t, "wait") : j > mm(1)
               /\ Cardinality(Idx(t, "commit")) <= 1
               /\ \A c \in Idx(t, "commit") : hist[t][c].n = 2
               /\ pc[t] > FirstPos(kern, "commit_batch") => Cardinality(Idx(t, "commit")) = 1

C9_Witness ==
  /\ kern = "kernel_sparse"
  /\ \E t \in Threads : Cardinality(Idx(t, "mma")) = 2 /\ Cardinality(Idx(t, "commit")) = 1
  /\ \E t \in Threads : Cardinality(Idx(t, "mma")) = 1

\* C10: Result Scatter is a bijection for both shapes: over the threads swept
\* so far no word of C is stored twice and no store falls outside
\* [0, M*N/2); once all 128 threads are swept, the stores cover exactly
\* [0, M*N/2); each thread's offset2 is its offset1 moved down by exactly
\* 8 rows in the same column.
C10_ScatterBijection ==
  kern \in Compute =>
    /\ s_dup = {}
    /\ s_oob = {}
    /\ Cardinality(s_hit) = s_tid * Cardinality(Slots(kern))
    /\ s_tid = threads_per_block => s_hit = 0 .. (CWords(kern) - 1)
    /\ \A tid \in 0 .. (s_tid - 1) :
         /\ offset2(kern, tid) \div RowWords(kern) = (offset1(kern, tid) \div RowWords(kern)) + 8
         /\ offset2(kern, tid) % RowWords(kern) = offset1(kern, tid) % RowWords(kern)

C10_Witness ==
  /\ kern = "kernel_dense"
  /\ s_tid = threads_per_block
  /\ Cardinality(s_hit) = 512

(***************************************************************************)
(* Descriptor base pointers.                                               *)
(***************************************************************************)
\* the alignment each shared buffer is declared with (alignas / __align__)
DeclaredAlign(buf) ==
  CASE buf = "smem_buffer" -> 128
    [] buf = "tile_shared" -> 16
    [] buf = "A_shared" -> 128
    [] buf = "B_shared" -> 16

\* the swizzle mode is the last template argument of the builder
swizzle_mode(d) == d.targs[Len(d.targs)]

\* the alignment the builder asks of its base pointer
RequiredAlign(d) == IF swizzle_mode(d) # 0 THEN 128 ELSE 16

\* the declaration guarantees a multiple of `a` for buf + addr
Guaranteed(d, a) == DeclaredAlign(d.buf) % a = 0 /\ d.addr % a = 0

\* C11: every descriptor a thread has built (four builds in the sparse
\* kernel, two in the dense one) was given a base pointer that the declared
\* alignment of its buffer makes a multiple of the alignment its swizzle
\* mode requires: 128 bytes when the mode is non-zero, 16 bytes when zero.
C11_DescBaseAligned ==
  kern \in Compute =>
    \A t \in Threads :
      \A d \in {regs[t].desc_a, regs[t].desc_b} :
        d # NoDesc => Guaranteed(d, RequiredAlign(d))

(***************************************************************************)
(* Transaction registration and barrier phases.                            *)
(***************************************************************************)
\* the barrier_arrive_tx calls issued so far
TxCalls == {e \in eng : e.op = "arrive_tx"}

\* C12 as stated: in the dense and sparse kernels, once any thread has
\* arrived on the barrier, thread 0 has already registered
\* sizeof(A_shared) + sizeof(B_shared) bytes.
C12_TxBeforeAnyArrival ==
  kern \in Compute =>
    (bar.arrived > 0 =>
       bar.declared = Sizeof(kern, "A_shared") + Sizeof(kern, "B_shared"))

\* C12: in the dense and sparse kernels the byte counts of the A and B
\* copies are registered by one barrier_arrive_tx call of thread 0 with
\* sizeof(A_shared) + sizeof(B_shared), which is thread 0's own arrival:
\* nothing is registered before it, the sum is registered from it on, and
\* it has happened once the phase has completed or any thread has returned
\* from bar.wait.
C12_TxBeforeCompletion ==
  kern \in Compute =>
    /\ Cardinality(TxCalls) <= 1
    /\ \A e \in TxCalls : e.tid = 0
    /\ bar.declared = IF token[0] # -1
                        THEN Sizeof(kern, "A_shared") + Sizeof(kern, "B_shared")
                        ELSE 0
    /\ (bar.phase > 0 \/ \E t \in Threads : pc[t] > WaitPos) =>
         (TxCalls # {} /\ token[0] # -1)

C12_Witness ==
  /\ kern = "kernel_sparse"
  /\ bar.declared = Sizeof(kern, "A_shared") + Sizeof(kern, "B_shared")
  /\ bar.arrived = BlockDim
  /\ bar.phase = 0
  /\ bar.tx > 0

\* C13 as stated: whenever a thread comes to its bar.wait(token) call (the
\* step that takes it there is its arrival), the phase its token is bound
\* to is still the barrier's current phase.
C13_WaitInCurrentPhase ==
  [][\A t \in Threads :
       (pc[t] # WaitPos /\ pc'[t] = WaitPos) => bar'.phase = token'[t]]_vars

\* C13: in every kernel each thread calls bar.wait with the token of phase
\* 0, the only phase the barrier is armed for: at the call and until the
\* thread returns that phase is the current one or the one that has just
\* completed (the barrier is never more than one phase ahead of a token),
\* and the barrier completes exactly one phase per kernel invocation, when
\* all blockDim.x threads have arrived and no transaction byte is pending.
C13_OnePhase ==
  /\ bar.phase \in {0, 1}
  /\ \A t \in Threads :
       /\ token[t] \in {-1, 0}
       /\ pc[t] >= WaitPos => token[t] = 0
       /\ token[t] = 0 => bar.phase - token[t] \in {0, 1}
  /\ bar.phase = 1 => (bar.arrived = BlockDim /\ bar.tx = 0)
  /\ (\A t \in Threads : pc[t] = Exit(kern)) => bar.phase = 1

C13_Witness ==
  /\ kern = "add_one_kernel"
  /\ bar.phase = 1
  /\ \E t \in Threads : pc[t] = WaitPos /\ token[t] = 0
  /\ \E t \in Threads : pc[t] > WaitPos

(***************************************************************************)
(* The result of a tensor-core kernel as a function of the launch alone.   *)
(***************************************************************************)
\* the last instruction with operation op at or before position q (0: none)
LastBefore(kn, op, q) ==
  LET S == {r \in PosSet(kn, op) : r <= q}
  IN  IF S = {} THEN 0 ELSE PosMax(S)

\* the product the mma at position q of thread tid's program contributes,
\* read off the program text in program order
ProductAt(kn, tid, q) ==
  LET d == LastBefore(kn, "make_desc", q)
      l == LastBefore(kn, "load_metadata", q)
  IN  [a |-> Prog(kn)[d].arg.a,
       b |-> Prog(kn)[d].arg.b,
       meta |-> IF l = 0 THEN <<>>
                ELSE <<"metadata_array", metadata_offset(tid, Prog(kn)[l].arg)>>,
       full |-> TRUE]

\* what thread tid's accumulator registers hold after all its mma
FinalAcc(kn, tid) == {ProductAt(kn, tid, q) : q \in PosSet(kn, "mma")}

\* the words of C after the kernel
FinalC(kn) ==
  {[off |-> StoreOffset(kn, tid, sl), val |-> FinalAcc(kn, tid), tid |-> tid] :
     tid \in Threads, sl \in Slots(kn)}

\* C14: in the dense and sparse kernels the C the host reads back is the
\* same in every interleaving: it is FinalC, a function of the kernel and
\* its operands alone; each word is written by one thread only, from
\* registers that were zeroed in the kernel, so what C held before is
\* never read.
C14_Deterministic ==
  (kern \in Compute /\ host.done) =>
    /\ host.data = FinalC(kern)
    /\ \A w1 \in host.data, w2 \in host.data : w1.off = w2.off => w1.tid = w2.tid
    /\ \A t \in Threads : Cardinality(Idx(t, "acc_zero")) = 1
    /\ Cardinality(host.data) = BlockDim * Cardinality(Slots(kern))

C14_Witness ==
  /\ kern = "kernel_sparse"
  /\ host.done
  /\ \E w \in host.data : w.tid = BlockDim - 1 /\ Cardinality(w.val) = 2

\* the operations handed to the copy engine
EngineOps ==
  {"copy_in", "prefetch", "arrive_tx", "copy_out", "commit_group", "wait_group_read"}

\* C17: in every kernel thread 0 is the only issuer of copy_in, prefetch,
\* arrive_with_transaction, copy_out, commit_group and wait_group_read;
\* every thread arrives on the barrier at most once and exactly once before
\* it waits, thread 0 through its one arrive_with_transaction (arrival
\* count 1) and the others through plain arrive; each thread has one wait
\* on its path and returns from it holding its own token; the arrivals of
\* the phase number blockDim.x, the participant count, when it completes.
C17_SingleWriter ==
  /\ \A e \in eng : e.op \in EngineOps => e.tid = 0
  /\ Cardinality(TxCalls) <= 1
  /\ token[0] # -1 <=> TxCalls # {}
  /\ bar.arrived = Cardinality({t \in Threads : token[t] # -1})
  /\ (bar.inits = 1 /\ bar.phase = 0) => bar.pending = bar.expected - bar.arrived
  /\ Cardinality(PosSet(kern, "wait")) = 1
  /\ \A t \in Threads :
       /\ Applies(Prog(kern)[WaitPos], t)
       /\ pc[t] >= WaitPos => token[t] = 0
       /\ t # 0 => (token[t] # -1 <=> pc[t] > FirstPos(kern, "arrive"))
  /\ bar.phase >= 1 => (bar.arrived = BlockDim /\ bar.expected = BlockDim)

C17_Witness ==
  /\ kern = "test"
  /\ bar.arrived = BlockDim
  /\ \A op \in EngineOps : \E e \in eng : e.op = op /\ e.tid = 0
  /\ \A t \in Threads : pc[t] = Exit(kern)

(***************************************************************************)
(* Progress.  The block's threads are scheduled fairly, the copy engine    *)
(* finishes every copy it was handed and the tensor pipeline every batch   *)
(* that was committed.                                                     *)
(***************************************************************************)
\* any step of thread t's own program
ThreadStep(t) ==
  \/ BarInit(t) \/ SyncThreads(t) \/ Prefetch(t) \/ CopyIn(t)
  \/ ArriveTx(t) \/ Arrive(t) \/ Wait(t) \/ Update(t) \/ FenceProxy(t)
  \/ CopyOut(t) \/ CommitGroup(t) \/ WaitGroupRead(t) \/ ThreadFence(t)
  \/ LoadMetadata(t) \/ MakeDesc(t) \/ AccZero(t) \/ WarpgroupArrive(t)
  \/ Mma(t) \/ CommitBatch(t) \/ WarpgroupWait(t) \/ Store(t)

Fairness ==
  /\ \A t \in Threads : WF_vars(ThreadStep(t))
  /\ \A t \in Threads : WF_vars(TensorComplete(t))
  /\ \A b \in {"smem_buffer", "tile_shared", "A_shared", "B_shared"} :
       WF_vars(CopyInChunk(b))
  /\ WF_vars(CopyOutRead)
  /\ WF_vars(CopyOutWrite)

SpecLive == Spec /\ Fairness

\* C18: under fair scheduling of the threads and an engine and pipeline
\* that finish what they were handed, every thread eventually reaches
\* kernel exit in every kernel, having returned from bar.wait and passed
\* every __syncthreads on its way: there is no deadlock.
C18_AllExit == <>(\A t \in Threads : pc[t] = Exit(kern))

C18_Witness ==
  /\ kern = "kernel_dense"
  /\ \A t \in Threads : pc[t] = Exit(kern)
  /\ bar.phase = 1
  /\ \A t \in Threads : batches[t] = <<>>

(***************************************************************************)
(* Transaction accounting.                                                 *)
(***************************************************************************)
\* the bytes the pieces of the inbound copies into the buffers S have
\* credited so far
RECURSIVE SumCredited(_)
SumCredited(S) ==
  IF S = {} THEN 0
  ELSE LET b == CHOOSE x \in S : TRUE
       IN  (IF cin[b] < 0 THEN 0 ELSE ChunkEnd(cin[b], Sizeof(kern, b)))
             + SumCredited(S \ {b})

\* C19: in every kernel the bytes thread 0 declares equal the bytes the
\* issued copies credit in total: m * k ints in the 2D kernel, tile_size
\* ints in the 1D kernel, (64*16 + 16*16) halves in the dense and
\* (64*32 + 64*8) halves in the sparse kernel.  The pending byte count is
\* always declared minus credited and is exactly zero once the phase has
\* completed; while a copy is issued and thread 0 has not declared yet, the
\* phase is still the first one with at least one arrival outstanding.
C19_TxBalanced ==
  LET total == SumSizeof(kern, Bufs(kern))
  IN  /\ bar.declared \in {0, total}
      /\ bar.credited = SumCredited(DOMAIN cin)
      /\ bar.credited <= total
      /\ bar.tx = bar.declared - bar.credited
      /\ bar.phase >= 1 =>
           (bar.tx = 0 /\ bar.declared = total /\ bar.credited = total)
      /\ ((\E b \in DOMAIN cin : cin[b] >= 0) /\ bar.declared = 0) =>
           (token[0] = -1 /\ bar.phase = 0 /\ bar.pending >= 1)
      /\ kern = "test" => total = m_2d * k_2d * SizeofInt
      /\ kern = "add_one_kernel" => total = tile_size * SizeofInt
      /\ kern = "kernel_dense" => total = (64 * 16 + 16 * 16) * SizeofHalf
      /\ kern = "kernel_sparse" => total = (64 * 32 + 64 * 8) * SizeofHalf

C19_Witness ==
  /\ kern = "kernel_dense"
  /\ bar.credited > 0
  /\ bar.declared = 0
  /\ bar.tx < 0
  /\ bar.pending = 1

\* C20: in the sparse kernel every thread's metadata index lies in
\* [0, metadata_size) for both K-sub-blocks: the one for sub-block 0 in
\* [warp_id * 32, warp_id * 32 + 16), the one for sub-block 1 in
\* [warp_id * 32 + 16, warp_id * 32 + 32), so the two mma of a thread never
\* read the same entry; the second index is the first moved up by 16, and
\* once all 128 threads are swept every entry of the array has been read.
C20_MetadataInRange ==
  kern = "kernel_sparse" =>
    /\ metadata_size = threads_per_block
    /\ \A o \in m_hit : o >= 0 /\ o < metadata_size
    /\ \A tid \in 0 .. (m_tid - 1) :
         LET o0 == metadata_offset(tid, 0)
             o1 == metadata_offset(tid, 1)
             w == warp_id(tid) * 32
         IN  /\ o0 >= w /\ o0 < w + 16
             /\ o1 >= w + 16 /\ o1 < w + 32
             /\ o0 # o1
             /\ o1 = o0 + 16
             /\ {o0, o1} \subseteq m_hit
    /\ m_tid = threads_per_block => m_hit = 0 .. (metadata_size - 1)

C20_Witness ==
  /\ kern = "kernel_sparse"
  /\ m_tid = threads_per_block
  /\ Cardinality(m_hit) = metadata_size

====
